---- MODULE Spec2Model ----
(***************************************************************************)
(* State-machine model of the koordlet core of cfs-quota-burst:            *)
(*   - statesInformer (pkg/koordlet/statesinformer/impl/states_informer.go)*)
(*   - metricAdvisor  (pkg/koordlet/metricsadvisor, src/unnamed/part_000)  *)
(*   - nodeInfoCollector (collectors/nodeinfo, second half of              *)
(*     states_informer.go)                                                 *)
(* Goroutines are modelled as processes with a program counter each; every *)
(* action is one atomic step of one goroutine.                             *)
(***************************************************************************)
EXTENDS Integers, FiniteSets, Sequences, TLC

\* ---------------------------------------------------------------- bounds
NumPlugins == 2

NumCollectors == 2

Plugins == 1..NumPlugins

Collectors == 1..NumCollectors

\* time.Second, with durations counted in milliseconds
Second == 1000

\* values Config.CollectResUsedInterval is drawn from
IntervalChoices == {0, Second - 1, Second, Second + 1}

\* CPU topologies koordletutil.GetLocalCPUInfo can report
CPUInfos == {"cpuinfoA", "cpuinfoB"}

\* no entry under the collector's key (metriccache.NodeCPUInfoKey)
Absent == "absent"

VARIABLES
    stopCh,        \* TRUE once the shared stop channel is closed
    \* ---- statesInformer
    siPc,          \* position of the goroutine executing statesInformer.Run
    siLeft,        \* plugins the current range loop of Run has not visited yet
    setupCalls,    \* per plugin: number of Setup calls received
    startCalls,    \* per plugin: number of `go p.Start(stopCh)` statements executed
    pluginTask,    \* per plugin: position of its Start goroutine
    pluginSynced,  \* per plugin: value returned by p.HasSynced()
    started,       \* statesInformer.started (atomic.Bool)
    stopBeforeSynced, \* history: some plugin was unsynced when stopCh was closed
    hsPc,          \* position of a caller of statesInformer.HasSynced
    hsLeft,        \* plugins that call has not visited yet
    hsResult,      \* value returned by the last completed HasSynced call
    \* ---- metricAdvisor
    collectResUsedInterval, \* options.Config.CollectResUsedInterval (ms)
    enabled,       \* per collector: value of Enabled()
    maPc,          \* position of the goroutine executing metricAdvisor.Run
    maLeft,        \* collectors the current range loop of Run/setup has not visited
    colSetupCalls, \* per collector: number of Setup calls received
    colRunCalls,   \* per collector: number of `go collector.Run(stopCh)` executed
    mhPc,          \* position of a caller of metricAdvisor.HasSynced
    mhLeft,        \* collectors that call has not visited yet
    mhResult,      \* value returned by the last completed HasSynced call
    \* ---- nodeInfoCollector (one instance per registry entry)
    colPc,         \* per collector: position of its wait.Until goroutine
    localInfo,     \* per collector: the nodeCPUInfo built by the cycle in progress
    colStarted,    \* per collector: started (atomic.Bool)
    cache,         \* metric cache: per collector, the entry under its key
    inProgress,    \* per collector: executions of collectNodeInfo in progress
    \* ---- accessors and pure functions
    informerPlugins, \* states.informerPlugins: per fixed plugin name, the concrete
                   \* type of the entry stored under it
    pluginCache,   \* per fixed plugin name: the object the plugin holds cached
    call,          \* the function call in progress or last made, with its arguments
    ret            \* its return value

runVars == <<siPc, siLeft>>

callVars == <<setupCalls, startCalls>>

plugVars == <<pluginTask, pluginSynced>>

readerVars == <<hsPc, hsLeft, hsResult>>

siVars == <<runVars, callVars, plugVars, started, stopBeforeSynced, readerVars>>

advRunVars == <<maPc, maLeft>>

advCallVars == <<colSetupCalls, colRunCalls>>

advConfVars == <<collectResUsedInterval, enabled>>

advReaderVars == <<mhPc, mhLeft, mhResult>>

colVars == <<colPc, localInfo, colStarted, cache, inProgress>>

maVars == <<advConfVars, advRunVars, advCallVars, advReaderVars, colVars>>

fnVars == <<informerPlugins, pluginCache, call, ret>>

vars == <<stopCh, siVars, maVars, fnVars>>

\* ------------------------------------------- values of accessors and functions
\* a nil pointer, nil interface value or nil error
Nil == "nil"

\* the fixed names the accessors look their plugin up under
nodeInformerName == "nodeInformer"

cmInformerName == "cmInformer"

podsInformerName == "podsInformer"

PluginNames == {nodeInformerName, cmInformerName, podsInformerName}

\* the map holds no entry under the name: the lookup yields the nil interface
Missing == "missing"

\* concrete types an entry of the registry can have
PluginTypes == {"*nodeInformer", "*cmInformer", "*podsInformer", "*otherPlugin"}

\* objects a plugin can hold cached (Nil before its first event)
Objects == {Nil, "objA", "objB"}

\* no call made yet
NoCall == [fn |-> "none"]

NoRet == [status |-> "none", val |-> Nil, err |-> Nil]

\* the caller is inside the function
Pending == [status |-> "pending", val |-> Nil, err |-> Nil]

\* the function returned (v, e)
Returned(v, e) == [status |-> "returned", val |-> v, err |-> e]

\* the function panicked instead of returning
Panicked == [status |-> "panicked", val |-> Nil, err |-> Nil]

\* DefaultPluginRegistry as wired: each name holds its own concrete type
DefaultPluginRegistry ==
    [n \in PluginNames |-> CASE n = nodeInformerName -> "*nodeInformer"
                             [] n = cmInformerName -> "*cmInformer"
                             [] n = podsInformerName -> "*podsInformer"]

\* No accessor or function call is in progress.
InitNoCalls ==
    /\ informerPlugins = DefaultPluginRegistry
    /\ pluginCache = [n \in PluginNames |-> Nil]
    /\ call = NoCall
    /\ ret = NoRet

\* ------------------------------------------------------------------ Init
\* NewStatesInformer: started = atomic.NewBool(false); the registry is fixed
\* and no plugin has been set up, started or synced.
InitStatesInformer ==
    /\ siPc = "init"
    /\ siLeft = {}
    /\ setupCalls = [p \in Plugins |-> 0]
    /\ startCalls = [p \in Plugins |-> 0]
    /\ pluginTask = [p \in Plugins |-> "none"]
    /\ pluginSynced = [p \in Plugins |-> FALSE]
    /\ started = FALSE
    /\ stopBeforeSynced = FALSE
    /\ hsPc = "idle"
    /\ hsLeft = {}
    /\ hsResult = FALSE

\* NewMetricAdvisor and nodeinfo.New: started = atomic.NewBool(false), the
\* cache holds nothing yet and no goroutine exists.
InitMetricAdvisor ==
    /\ maPc = "init"
    /\ maLeft = {}
    /\ colSetupCalls = [c \in Collectors |-> 0]
    /\ colRunCalls = [c \in Collectors |-> 0]
    /\ mhPc = "idle"
    /\ mhLeft = {}
    /\ mhResult = FALSE
    /\ colPc = [c \in Collectors |-> "none"]
    /\ localInfo = [c \in Collectors |-> Absent]
    /\ colStarted = [c \in Collectors |-> FALSE]
    /\ cache = [c \in Collectors |-> Absent]
    /\ inProgress = [c \in Collectors |-> 0]

\* The states informer alone; the metric advisor is constructed, never run.
InitInformer ==
    /\ stopCh = FALSE
    /\ InitStatesInformer
    /\ InitMetricAdvisor
    /\ InitNoCalls
    /\ collectResUsedInterval = Second
    /\ enabled = [c \in Collectors |-> TRUE]

\* The metric advisor alone; the configured interval and each collector's
\* Enabled() are fixed inputs.
InitAdvisor ==
    /\ stopCh = FALSE
    /\ InitStatesInformer
    /\ InitMetricAdvisor
    /\ InitNoCalls
    /\ collectResUsedInterval \in IntervalChoices
    /\ enabled \in [Collectors -> BOOLEAN]

\* The owner of stopCh closes it; it can do so at any moment, once.
CloseStopCh ==
    /\ ~stopCh
    /\ stopCh' = TRUE
    /\ stopBeforeSynced' = (\E p \in Plugins : ~pluginSynced[p])
    /\ UNCHANGED <<runVars, callVars, plugVars, started, readerVars, maVars, fnVars>>

\* ------------------------------------------------- statesInformer.Run
\* Run is entered: the two log lines, then setupPlugins starts its range loop.
RunBegin ==
    /\ siPc = "init"
    /\ siPc' = "setupPlugins"
    /\ siLeft' = Plugins
    /\ UNCHANGED <<stopCh, callVars, plugVars, started, stopBeforeSynced, readerVars, maVars, fnVars>>

\* Variant of setupPlugins: the loop is left after its first iteration.
setupPlugins_FirstOnly(p) ==
    /\ siPc = "setupPlugins"
    /\ p \in siLeft
    /\ setupCalls' = [setupCalls EXCEPT ![p] = @ + 1]
    /\ siLeft' = Plugins
    /\ siPc' = "startPlugins"
    /\ UNCHANGED <<stopCh, startCalls, plugVars, started, stopBeforeSynced, readerVars, maVars, fnVars>>

\* One iteration of `for name, plugin := range informerPlugins { plugin.Setup }`
\* (map order is arbitrary).  After the last iteration Run calls startPlugins.
setupPlugins(p) ==
    /\ siPc = "setupPlugins"
    /\ p \in siLeft
    /\ setupCalls' = [setupCalls EXCEPT ![p] = @ + 1]
    /\ siLeft' = IF siLeft = {p} THEN Plugins ELSE siLeft \ {p}
    /\ siPc' = IF siLeft = {p} THEN "startPlugins" ELSE "setupPlugins"
    /\ UNCHANGED <<stopCh, startCalls, plugVars, started, stopBeforeSynced, readerVars, maVars, fnVars>>

\* One iteration of `for name, p := range informerPlugins { go p.Start(stopCh) }`:
\* the go statement creates the plugin's goroutine, which runs later.
startPlugins(p) ==
    /\ siPc = "startPlugins"
    /\ p \in siLeft
    /\ startCalls' = [startCalls EXCEPT ![p] = @ + 1]
    /\ pluginTask' = [pluginTask EXCEPT ![p] = "spawned"]
    /\ siLeft' = siLeft \ {p}
    /\ siPc' = IF siLeft = {p} THEN "waitForSyncFunc" ELSE "startPlugins"
    /\ UNCHANGED <<stopCh, setupCalls, pluginSynced, started, stopBeforeSynced, readerVars, maVars, fnVars>>

\* Variant of waitForSyncFunc: the slice holds one plugin's HasSynced only.
waitForSyncFunc_OnePlugin ==
    /\ siPc = "waitForSyncFunc"
    /\ siPc' = "pollImmediate"
    /\ siLeft' = {CHOOSE p \in Plugins : TRUE}
    /\ UNCHANGED <<stopCh, callVars, plugVars, started, stopBeforeSynced, readerVars, maVars, fnVars>>

\* Variant of waitForSyncFunc: the started flag is stored before the barrier.
waitForSyncFunc_StoreEarly ==
    /\ siPc = "waitForSyncFunc"
    /\ siPc' = "pollImmediate"
    /\ siLeft' = Plugins
    /\ started' = TRUE
    /\ UNCHANGED <<stopCh, callVars, plugVars, stopBeforeSynced, readerVars, maVars, fnVars>>

\* waitForSyncFunc collects every plugin's HasSynced; Run hands the slice to
\* cache.WaitForCacheSync, whose first poll is taken unconditionally.
waitForSyncFunc ==
    /\ siPc = "waitForSyncFunc"
    /\ siPc' = "pollImmediate"
    /\ siLeft' = Plugins
    /\ UNCHANGED <<stopCh, callVars, plugVars, started, stopBeforeSynced, readerVars, maVars, fnVars>>

\* Variant of the barrier poll: one synced plugin is enough.
WaitForCacheSyncPoll_AnySynced(p) ==
    /\ siPc \in {"pollImmediate", "pollTick"}
    /\ p \in siLeft
    /\ IF pluginSynced[p]
         THEN /\ siLeft' = {}
              /\ siPc' = "store"
         ELSE /\ siLeft' = siLeft \ {p}
              /\ siPc' = IF siLeft # {p} THEN siPc
                         ELSE IF siPc = "pollImmediate" THEN "pollSelect" ELSE "pollLoop"
    /\ UNCHANGED <<stopCh, callVars, plugVars, started, stopBeforeSynced, readerVars, maVars, fnVars>>

\* One syncFunc() call inside a poll of cache.WaitForCacheSync
\* (wait.PollImmediateUntil over "every cacheSync returns true").
\* A false answer ends the poll; the last true answer makes the barrier
\* return true.
WaitForCacheSyncPoll(p) ==
    /\ siPc \in {"pollImmediate", "pollTick"}
    /\ p \in siLeft
    /\ IF pluginSynced[p]
         THEN /\ siLeft' = siLeft \ {p}
              /\ siPc' = IF siLeft = {p} THEN "store" ELSE siPc
         ELSE /\ siLeft' = {}
              /\ siPc' = IF siPc = "pollImmediate" THEN "pollSelect" ELSE "pollLoop"
    /\ UNCHANGED <<stopCh, callVars, plugVars, started, stopBeforeSynced, readerVars, maVars, fnVars>>

\* PollImmediateUntil after a failed immediate poll:
\* select { case <-stopCh: return ErrWaitTimeout; default: PollUntil(...) }.
\* WaitForCacheSync returns false and Run returns the "timed out" error.
WaitForCacheSyncSelect ==
    /\ siPc = "pollSelect"
    /\ siPc' = IF stopCh THEN "returnedErr" ELSE "pollLoop"
    /\ UNCHANGED <<stopCh, siLeft, callVars, plugVars, started, stopBeforeSynced, readerVars, maVars, fnVars>>

\* The poll loop's select, tick branch: the 100ms ticker fired, poll again.
\* Go's select has no priority: with stopCh closed and a tick ready either
\* branch may be taken.
WaitForCacheSyncTick ==
    /\ siPc = "pollLoop"
    /\ siPc' = "pollTick"
    /\ siLeft' = Plugins
    /\ UNCHANGED <<stopCh, callVars, plugVars, started, stopBeforeSynced, readerVars, maVars, fnVars>>

\* Variant of the barrier: it is handed a channel that is never closed, so
\* the loop's stop branch is never ready.
WaitForCacheSyncStopped_NeverStop ==
    /\ FALSE
    /\ UNCHANGED vars

\* The poll loop's select, stop branch: WaitForCacheSync returns false and
\* Run returns fmt.Errorf("timed out waiting for states informer caches to sync").
WaitForCacheSyncStopped ==
    /\ siPc = "pollLoop"
    /\ stopCh
    /\ siPc' = "returnedErr"
    /\ UNCHANGED <<stopCh, siLeft, callVars, plugVars, started, stopBeforeSynced, readerVars, maVars, fnVars>>

\* s.started.Store(true)
RunStoreStarted ==
    /\ siPc = "store"
    /\ started' = TRUE
    /\ siPc' = "block"
    /\ UNCHANGED <<stopCh, siLeft, callVars, plugVars, stopBeforeSynced, readerVars, maVars, fnVars>>

\* Variant of the final wait: Run returns without receiving from stopCh.
RunReturnNil_NoWait ==
    /\ siPc = "block"
    /\ siPc' = "returnedNil"
    /\ UNCHANGED <<stopCh, siLeft, callVars, plugVars, started, stopBeforeSynced, readerVars, maVars, fnVars>>

\* <-stopCh; return nil
RunReturnNil ==
    /\ siPc = "block"
    /\ stopCh
    /\ siPc' = "returnedNil"
    /\ UNCHANGED <<stopCh, siLeft, callVars, plugVars, started, stopBeforeSynced, readerVars, maVars, fnVars>>

\* ------------------------------------------------------ informerPlugin
\* The plugin's goroutine is scheduled and Start begins to execute.
PluginStart(p) ==
    /\ pluginTask[p] = "spawned"
    /\ pluginTask' = [pluginTask EXCEPT ![p] = "running"]
    /\ UNCHANGED <<stopCh, runVars, callVars, pluginSynced, started, stopBeforeSynced, readerVars, maVars, fnVars>>

\* The running plugin completes its initial sync: HasSynced becomes true and
\* stays true.  A sync in progress when stopCh closes may still finish.
PluginSync(p) ==
    /\ pluginTask[p] = "running"
    /\ ~pluginSynced[p]
    /\ pluginSynced' = [pluginSynced EXCEPT ![p] = TRUE]
    /\ UNCHANGED <<stopCh, runVars, callVars, pluginTask, started, stopBeforeSynced, readerVars, maVars, fnVars>>

\* The running plugin observes the closed stopCh and its task ends.
PluginExit(p) ==
    /\ pluginTask[p] = "running"
    /\ stopCh
    /\ pluginTask' = [pluginTask EXCEPT ![p] = "exited"]
    /\ UNCHANGED <<stopCh, runVars, callVars, pluginSynced, started, stopBeforeSynced, readerVars, maVars, fnVars>>

\* ------------------------------------------- statesInformer.HasSynced
\* Any goroutine may call HasSynced at any time, also while Run executes.
HasSyncedCall ==
    /\ hsPc \in {"idle", "done"}
    /\ hsPc' = "loop"
    /\ hsLeft' = Plugins
    /\ UNCHANGED <<stopCh, runVars, callVars, plugVars, started, stopBeforeSynced, hsResult, maVars, fnVars>>

\* Variant of HasSynced: the test is inverted, one synced plugin answers true.
HasSynced_AnySynced(p) ==
    /\ hsPc = "loop"
    /\ p \in hsLeft
    /\ IF pluginSynced[p]
         THEN /\ hsResult' = TRUE
              /\ hsPc' = "done"
              /\ hsLeft' = {}
         ELSE /\ hsLeft' = hsLeft \ {p}
              /\ hsPc' = IF hsLeft = {p} THEN "done" ELSE "loop"
              /\ hsResult' = IF hsLeft = {p} THEN FALSE ELSE hsResult
    /\ UNCHANGED <<stopCh, runVars, callVars, plugVars, started, stopBeforeSynced, maVars, fnVars>>

\* One iteration of `for _, p := range informerPlugins { if !p.HasSynced()
\* { return false } }`; `return true` after the last one.
HasSynced(p) ==
    /\ hsPc = "loop"
    /\ p \in hsLeft
    /\ IF ~pluginSynced[p]
         THEN /\ hsResult' = FALSE
              /\ hsPc' = "done"
              /\ hsLeft' = {}
         ELSE /\ hsLeft' = hsLeft \ {p}
              /\ hsPc' = IF hsLeft = {p} THEN "done" ELSE "loop"
              /\ hsResult' = IF hsLeft = {p} THEN TRUE ELSE hsResult
    /\ UNCHANGED <<stopCh, runVars, callVars, plugVars, started, stopBeforeSynced, maVars, fnVars>>

\* -------------------------------------------------------- specification
NextInformer ==
    \/ CloseStopCh
    \/ RunBegin
    \/ \E p \in Plugins : setupPlugins(p)
    \/ \E p \in Plugins : startPlugins(p)
    \/ waitForSyncFunc
    \/ \E p \in Plugins : WaitForCacheSyncPoll(p)
    \/ WaitForCacheSyncSelect
    \/ WaitForCacheSyncTick
    \/ WaitForCacheSyncStopped
    \/ RunStoreStarted
    \/ RunReturnNil
    \/ \E p \in Plugins : PluginStart(p)
    \/ \E p \in Plugins : PluginSync(p)
    \/ \E p \in Plugins : PluginExit(p)
    \/ HasSyncedCall
    \/ \E p \in Plugins : HasSynced(p)

SpecInformer == InitInformer /\ [][NextInformer]_vars

\* --------------------------------------------------- metricAdvisor.Run
\* Variant of the threshold test: only a zero interval disables the pipeline.
PipelineDisabled_ZeroOnly == collectResUsedInterval = 0

\* m.options.Config.CollectResUsedInterval < time.Second
PipelineDisabled == collectResUsedInterval < Second

\* Run is entered: with the pipeline disabled it logs and returns nil at
\* once; otherwise it calls m.setup().
AdvisorRun ==
    /\ maPc = "init"
    /\ IF PipelineDisabled
         THEN /\ maPc' = "returnedNil"
              /\ maLeft' = maLeft
         ELSE /\ maPc' = "setup"
              /\ maLeft' = Collectors
    /\ UNCHANGED <<stopCh, siVars, fnVars, advConfVars, advCallVars, advReaderVars, colVars>>

\* Variant of setup: the Enabled() test is missing.
setup_NoEnabledCheck(c) ==
    /\ maPc = "setup"
    /\ c \in maLeft
    /\ colSetupCalls' = [colSetupCalls EXCEPT ![c] = @ + 1]
    /\ maLeft' = IF maLeft = {c} THEN Collectors ELSE maLeft \ {c}
    /\ maPc' = IF maLeft = {c} THEN "runCollectors" ELSE "setup"
    /\ UNCHANGED <<stopCh, siVars, fnVars, advConfVars, colRunCalls, advReaderVars, colVars>>

\* One iteration of setup's range loop: a disabled collector is skipped, an
\* enabled one gets collector.Setup(m.context) (a no-op for nodeInfoCollector).
\* After the last iteration Run goes on to its own loop.
setup(c) ==
    /\ maPc = "setup"
    /\ c \in maLeft
    /\ colSetupCalls' = IF enabled[c]
                          THEN [colSetupCalls EXCEPT ![c] = @ + 1]
                          ELSE colSetupCalls
    /\ maLeft' = IF maLeft = {c} THEN Collectors ELSE maLeft \ {c}
    /\ maPc' = IF maLeft = {c} THEN "runCollectors" ELSE "setup"
    /\ UNCHANGED <<stopCh, siVars, fnVars, advConfVars, colRunCalls, advReaderVars, colVars>>

\* One iteration of Run's range loop: a disabled collector is skipped, for
\* an enabled one `go collector.Run(stopCh)` creates a goroutine.
AdvisorRunCollector(c) ==
    /\ maPc = "runCollectors"
    /\ c \in maLeft
    /\ IF enabled[c]
         THEN /\ colRunCalls' = [colRunCalls EXCEPT ![c] = @ + 1]
              /\ colPc' = [colPc EXCEPT ![c] = "Run"]
         ELSE UNCHANGED <<colRunCalls, colPc>>
    /\ maLeft' = maLeft \ {c}
    /\ maPc' = IF maLeft = {c} THEN "block" ELSE "runCollectors"
    /\ UNCHANGED <<stopCh, siVars, fnVars, advConfVars, colSetupCalls, advReaderVars,
                   localInfo, colStarted, cache, inProgress>>

\* <-stopCh; return nil
AdvisorRunReturn ==
    /\ maPc = "block"
    /\ stopCh
    /\ maPc' = "returnedNil"
    /\ UNCHANGED <<stopCh, siVars, fnVars, advConfVars, maLeft, advCallVars, advReaderVars, colVars>>

\* ---------------------------------------------------- nodeInfoCollector
\* Run, in the goroutine the advisor created: `go wait.Until(n.collectNodeInfo,
\* n.collectInterval, stopCh)` creates the loop goroutine and Run returns.
nodeInfoCollectorRun(c) ==
    /\ colPc[c] = "Run"
    /\ colPc' = [colPc EXCEPT ![c] = "check"]
    /\ UNCHANGED <<stopCh, siVars, fnVars, advConfVars, advRunVars, advCallVars, advReaderVars,
                   localInfo, colStarted, cache, inProgress>>

\* Variant of the loop top: the stop test is missing.
UntilCheckStop_NoStopTest(c) ==
    /\ colPc[c] = "check"
    /\ colPc' = [colPc EXCEPT ![c] = "call"]
    /\ UNCHANGED <<stopCh, siVars, fnVars, advConfVars, advRunVars, advCallVars, advReaderVars,
                   localInfo, colStarted, cache, inProgress>>

\* wait.Until, top of the loop: select { case <-stopCh: return; default: }.
UntilCheckStop(c) ==
    /\ colPc[c] = "check"
    /\ colPc' = [colPc EXCEPT ![c] = IF stopCh THEN "exited" ELSE "call"]
    /\ UNCHANGED <<stopCh, siVars, fnVars, advConfVars, advRunVars, advCallVars, advReaderVars,
                   localInfo, colStarted, cache, inProgress>>

\* Variant of the loop: the next cycle is started by the timer alone, whether
\* or not the previous call of collectNodeInfo has returned.
UntilCall_Overlapping(c) ==
    /\ colPc[c] \in {"call", "collect", "set", "store", "errReturn"}
    /\ inProgress' = [inProgress EXCEPT ![c] = @ + 1]
    /\ colPc' = [colPc EXCEPT ![c] = "collect"]
    /\ UNCHANGED <<stopCh, siVars, fnVars, advConfVars, advRunVars, advCallVars, advReaderVars,
                   localInfo, colStarted, cache>>

\* wait.Until calls f() = n.collectNodeInfo synchronously: a cycle begins.
UntilCall(c) ==
    /\ colPc[c] = "call"
    /\ inProgress' = [inProgress EXCEPT ![c] = @ + 1]
    /\ colPc' = [colPc EXCEPT ![c] = "collect"]
    /\ UNCHANGED <<stopCh, siVars, fnVars, advConfVars, advRunVars, advCallVars, advReaderVars,
                   localInfo, colStarted, cache>>

\* Variant of the cycle: started is stored as soon as the read succeeded,
\* before storage.Set.
GetLocalCPUInfo_MarkStarted(c) ==
    /\ colPc[c] = "collect"
    /\ \/ \E info \in CPUInfos :
             /\ localInfo' = [localInfo EXCEPT ![c] = info]
             /\ colPc' = [colPc EXCEPT ![c] = "set"]
             /\ colStarted' = [colStarted EXCEPT ![c] = TRUE]
       \/ /\ colPc' = [colPc EXCEPT ![c] = "errReturn"]
          /\ localInfo' = localInfo
          /\ colStarted' = colStarted
    /\ UNCHANGED <<stopCh, siVars, fnVars, advConfVars, advRunVars, advCallVars, advReaderVars,
                   cache, inProgress>>

\* collectNodeCPUInfo, first half: koordletutil.GetLocalCPUInfo() either
\* fails, and collectNodeCPUInfo returns err, or yields the topology from
\* which nodeCPUInfo is built.
GetLocalCPUInfo(c) ==
    /\ colPc[c] = "collect"
    /\ \/ \E info \in CPUInfos :
             /\ localInfo' = [localInfo EXCEPT ![c] = info]
             /\ colPc' = [colPc EXCEPT ![c] = "set"]
       \/ /\ colPc' = [colPc EXCEPT ![c] = "errReturn"]
          /\ localInfo' = localInfo
    /\ UNCHANGED <<stopCh, siVars, fnVars, advConfVars, advRunVars, advCallVars, advReaderVars,
                   colStarted, cache, inProgress>>

\* Variant of the write: an entry that is present is kept (first write wins).
collectNodeCPUInfo_KeepFirst(c) ==
    /\ colPc[c] = "set"
    /\ cache' = IF cache[c] = Absent THEN [cache EXCEPT ![c] = localInfo[c]] ELSE cache
    /\ localInfo' = [localInfo EXCEPT ![c] = Absent]
    /\ colPc' = [colPc EXCEPT ![c] = "store"]
    /\ UNCHANGED <<stopCh, siVars, fnVars, advConfVars, advRunVars, advCallVars, advReaderVars,
                   colStarted, inProgress>>

\* collectNodeCPUInfo, second half: n.storage.Set(NodeCPUInfoKey, nodeCPUInfo);
\* return nil.
collectNodeCPUInfo(c) ==
    /\ colPc[c] = "set"
    /\ cache' = [cache EXCEPT ![c] = localInfo[c]]
    /\ localInfo' = [localInfo EXCEPT ![c] = Absent]
    /\ colPc' = [colPc EXCEPT ![c] = "store"]
    /\ UNCHANGED <<stopCh, siVars, fnVars, advConfVars, advRunVars, advCallVars, advReaderVars,
                   colStarted, inProgress>>

\* collectNodeInfo after a nil error: n.started.Store(true), log, return.
collectNodeInfo(c) ==
    /\ colPc[c] = "store"
    /\ colStarted' = [colStarted EXCEPT ![c] = TRUE]
    /\ inProgress' = [inProgress EXCEPT ![c] = @ - 1]
    /\ colPc' = [colPc EXCEPT ![c] = "timer"]
    /\ UNCHANGED <<stopCh, siVars, fnVars, advConfVars, advRunVars, advCallVars, advReaderVars,
                   localInfo, cache>>

\* Variant of the error branch: the `return` is missing, so started is stored.
collectNodeInfoErr_NoReturn(c) ==
    /\ colPc[c] = "errReturn"
    /\ colStarted' = [colStarted EXCEPT ![c] = TRUE]
    /\ inProgress' = [inProgress EXCEPT ![c] = @ - 1]
    /\ colPc' = [colPc EXCEPT ![c] = "timer"]
    /\ UNCHANGED <<stopCh, siVars, fnVars, advConfVars, advRunVars, advCallVars, advReaderVars,
                   localInfo, cache>>

\* Variant of the error branch: a failed cycle stores started = false.
collectNodeInfoErr_ClearStarted(c) ==
    /\ colPc[c] = "errReturn"
    /\ colStarted' = [colStarted EXCEPT ![c] = FALSE]
    /\ inProgress' = [inProgress EXCEPT ![c] = @ - 1]
    /\ colPc' = [colPc EXCEPT ![c] = "timer"]
    /\ UNCHANGED <<stopCh, siVars, fnVars, advConfVars, advRunVars, advCallVars, advReaderVars,
                   localInfo, cache>>

\* collectNodeInfo after an error: klog.Warningf(...); return.
collectNodeInfoErr(c) ==
    /\ colPc[c] = "errReturn"
    /\ inProgress' = [inProgress EXCEPT ![c] = @ - 1]
    /\ colPc' = [colPc EXCEPT ![c] = "timer"]
    /\ UNCHANGED <<stopCh, siVars, fnVars, advConfVars, advRunVars, advCallVars, advReaderVars,
                   localInfo, colStarted, cache>>

\* wait.Until after f() returned: select { case <-stopCh: return;
\* case <-t.C(): }, timer branch: back to the top of the loop.
UntilTimer(c) ==
    /\ colPc[c] = "timer"
    /\ colPc' = [colPc EXCEPT ![c] = "check"]
    /\ UNCHANGED <<stopCh, siVars, fnVars, advConfVars, advRunVars, advCallVars, advReaderVars,
                   localInfo, colStarted, cache, inProgress>>

\* The same select, stop branch: the loop goroutine ends.
UntilStopped(c) ==
    /\ colPc[c] = "timer"
    /\ stopCh
    /\ colPc' = [colPc EXCEPT ![c] = "exited"]
    /\ UNCHANGED <<stopCh, siVars, fnVars, advConfVars, advRunVars, advCallVars, advReaderVars,
                   localInfo, colStarted, cache, inProgress>>

\* -------------------------------------------- metricAdvisor.HasSynced
\* Variant of Started: readiness is read off the cache entry.
Started_FromCache(c) == cache[c] # Absent

\* nodeInfoCollector.Started: n.started.Load()
Started(c) == colStarted[c]

\* Any goroutine may call HasSynced at any time.
AdvisorHasSyncedCall ==
    /\ mhPc \in {"idle", "done"}
    /\ mhPc' = "loop"
    /\ mhLeft' = Collectors
    /\ UNCHANGED <<stopCh, siVars, fnVars, advConfVars, advRunVars, advCallVars, mhResult, colVars>>

\* framework.CollectorsHasStarted(m.context.Collectors), one iteration: a
\* disabled collector is skipped, an enabled one that is not Started() makes
\* the answer false; the answer is true after the last iteration.
CollectorsHasStarted(c) ==
    /\ mhPc = "loop"
    /\ c \in mhLeft
    /\ IF enabled[c] /\ ~Started(c)
         THEN /\ mhResult' = FALSE
              /\ mhPc' = "done"
              /\ mhLeft' = {}
         ELSE /\ mhLeft' = mhLeft \ {c}
              /\ mhPc' = IF mhLeft = {c} THEN "done" ELSE "loop"
              /\ mhResult' = IF mhLeft = {c} THEN TRUE ELSE mhResult
    /\ UNCHANGED <<stopCh, siVars, fnVars, advConfVars, advRunVars, advCallVars, colVars>>

NextAdvisor ==
    \/ CloseStopCh
    \/ AdvisorRun
    \/ \E c \in Collectors : setup(c)
    \/ \E c \in Collectors : AdvisorRunCollector(c)
    \/ AdvisorRunReturn
    \/ \E c \in Collectors : nodeInfoCollectorRun(c)
    \/ \E c \in Collectors : UntilCheckStop(c)
    \/ \E c \in Collectors : UntilCall(c)
    \/ \E c \in Collectors : GetLocalCPUInfo(c)
    \/ \E c \in Collectors : collectNodeCPUInfo(c)
    \/ \E c \in Collectors : collectNodeInfo(c)
    \/ \E c \in Collectors : collectNodeInfoErr(c)
    \/ \E c \in Collectors : UntilTimer(c)
    \/ \E c \in Collectors : UntilStopped(c)
    \/ AdvisorHasSyncedCall
    \/ \E c \in Collectors : CollectorsHasStarted(c)

SpecAdvisor == InitAdvisor /\ [][NextAdvisor]_vars

\* ------------------------------------------ the two components together
\* statesInformer and metricAdvisor share no variable but stopCh, which
\* neither writes: a behaviour of the two running side by side is an
\* interleaving of a behaviour of each.  Here one of them runs and the other
\* stays as constructed, whichever takes the first step.
InformerIdle == siPc = "init" /\ hsPc = "idle"

AdvisorIdle == maPc = "init" /\ mhPc = "idle"

NextEither ==
    \/ AdvisorIdle /\ NextInformer
    \/ InformerIdle /\ NextAdvisor

SpecEither == InitAdvisor /\ [][NextEither]_vars

\* Scheduling: a goroutine that can take its next step eventually takes it
\* (weak fairness on every step of the two Run goroutines; calling Run is up
\* to the caller and carries no fairness).  In the barrier's poll loop the
\* stop branch competes with the tick branch each time round; Go's select
\* chooses among ready cases at random, so a branch that is ready again and
\* again is eventually chosen (strong fairness).
FairRuns ==
    /\ WF_vars(\E p \in Plugins : setupPlugins(p))
    /\ WF_vars(\E p \in Plugins : startPlugins(p))
    /\ WF_vars(waitForSyncFunc)
    /\ WF_vars(\E p \in Plugins : WaitForCacheSyncPoll(p))
    /\ WF_vars(WaitForCacheSyncSelect)
    /\ SF_vars(WaitForCacheSyncStopped)
    /\ WF_vars(RunStoreStarted)
    /\ WF_vars(RunReturnNil)
    /\ WF_vars(\E c \in Collectors : setup(c))
    /\ WF_vars(\E c \in Collectors : AdvisorRunCollector(c))
    /\ WF_vars(AdvisorRunReturn)

\* The two Run goroutines side by side, with the plugins' tasks.  Callers of
\* HasSynced and the collectors' loops are left out: they write nothing that
\* either Run reads.
NextRuns ==
    \/ CloseStopCh
    \/ RunBegin
    \/ \E p \in Plugins : setupPlugins(p)
    \/ \E p \in Plugins : startPlugins(p)
    \/ waitForSyncFunc
    \/ \E p \in Plugins : WaitForCacheSyncPoll(p)
    \/ WaitForCacheSyncSelect
    \/ WaitForCacheSyncTick
    \/ WaitForCacheSyncStopped
    \/ RunStoreStarted
    \/ RunReturnNil
    \/ \E p \in Plugins : PluginStart(p)
    \/ \E p \in Plugins : PluginSync(p)
    \/ \E p \in Plugins : PluginExit(p)
    \/ AdvisorRun
    \/ \E c \in Collectors : setup(c)
    \/ \E c \in Collectors : AdvisorRunCollector(c)
    \/ AdvisorRunReturn

\* Both components as constructed; the interval on either side of the
\* threshold, the collectors all enabled (nodeInfoCollector.Enabled() is
\* constantly true) or all disabled.
InitRuns ==
    /\ stopCh = FALSE
    /\ InitStatesInformer
    /\ InitMetricAdvisor
    /\ InitNoCalls
    /\ collectResUsedInterval \in {Second - 1, Second}
    /\ enabled \in {[c \in Collectors |-> b] : b \in BOOLEAN}

FairSpecRuns == InitRuns /\ [][NextRuns]_vars /\ FairRuns

\* =============================================================== accessors
\* GetNode, GetCfsCM and GetAllPods, called by a consumer while the plugins
\* keep replacing the objects they hold cached.

Accessors == {"GetNode", "GetCfsCM", "GetAllPods"}

\* The registry under every content the wiring table can give it, entries
\* missing or of another concrete type included.
InitAccessors ==
    /\ stopCh = FALSE
    /\ InitStatesInformer
    /\ InitMetricAdvisor
    /\ collectResUsedInterval = Second
    /\ enabled = [c \in Collectors |-> TRUE]
    /\ informerPlugins \in [PluginNames -> PluginTypes \cup {Missing}]
    /\ pluginCache = [n \in PluginNames |-> Nil]
    /\ call = NoCall
    /\ ret = NoRet

\* A plugin's event handler replaces the object the plugin holds cached.
PluginCacheUpdate(n, obj) ==
    /\ informerPlugins[n] # Missing
    /\ pluginCache[n] # obj
    /\ pluginCache' = [pluginCache EXCEPT ![n] = obj]
    /\ UNCHANGED <<stopCh, siVars, maVars, informerPlugins, call, ret>>

\* A consumer enters accessor fn.
AccessorCall(fn) ==
    /\ ret.status # "pending"
    /\ call' = [fn |-> fn]
    /\ ret' = Pending
    /\ UNCHANGED <<stopCh, siVars, maVars, informerPlugins, pluginCache>>

\* nodeInformer.GetNode(), cmInformer.GetCm(), podsInformer.GetAllPods(): the
\* object the plugin stored under name n holds cached at this moment.
PluginGet(n) == pluginCache[n]

\* nodeInformerIf := informerPlugins[nodeInformerName];
\* nodeInformer, ok := nodeInformerIf.(*nodeInformer);
\* if !ok { log; return nil }; return nodeInformer.GetNode()
GetNode_Unchecked ==
    /\ call.fn = "GetNode"
    /\ ret = Pending
    /\ ret' = IF informerPlugins[nodeInformerName] = "*nodeInformer"
                 THEN Returned(PluginGet(nodeInformerName), Nil)
                 ELSE Panicked
    /\ UNCHANGED <<stopCh, siVars, maVars, informerPlugins, pluginCache, call>>

GetNode ==
    /\ call.fn = "GetNode"
    /\ ret = Pending
    /\ ret' = IF informerPlugins[nodeInformerName] = "*nodeInformer"
                 THEN Returned(PluginGet(nodeInformerName), Nil)
                 ELSE Returned(Nil, Nil)
    /\ UNCHANGED <<stopCh, siVars, maVars, informerPlugins, pluginCache, call>>

\* The same with cmInformerName and *cmInformer.
GetCfsCM ==
    /\ call.fn = "GetCfsCM"
    /\ ret = Pending
    /\ ret' = IF informerPlugins[cmInformerName] = "*cmInformer"
                 THEN Returned(PluginGet(cmInformerName), Nil)
                 ELSE Returned(Nil, Nil)
    /\ UNCHANGED <<stopCh, siVars, maVars, informerPlugins, pluginCache, call>>

\* The same with podsInformerName and *podsInformer.
GetAllPods ==
    /\ call.fn = "GetAllPods"
    /\ ret = Pending
    /\ ret' = IF informerPlugins[podsInformerName] = "*podsInformer"
                 THEN Returned(PluginGet(podsInformerName), Nil)
                 ELSE Returned(Nil, Nil)
    /\ UNCHANGED <<stopCh, siVars, maVars, informerPlugins, pluginCache, call>>

NextAccessors ==
    \/ \E n \in PluginNames, obj \in Objects : PluginCacheUpdate(n, obj)
    \/ \E fn \in Accessors : AccessorCall(fn)
    \/ GetNode
    \/ GetCfsCM
    \/ GetAllPods

SpecAccessors == InitAccessors /\ [][NextAccessors]_vars

\* =============================================================== functions
\* The cgroup path functions of package util and PodMeta.Key.  A string that
\* names a path is the sequence of its pieces between the "/" separators:
\* "a/b/" is <<"a", "b", "">>, "/sys" is <<"", "sys">>, "a" is <<"a">> and
\* the empty string is <<>>.
EmptyString == <<>>

RECURSIVE Flatten(_)
Flatten(elems) ==
    IF elems = <<>> THEN <<>> ELSE Head(elems) \o Flatten(Tail(elems))

\* filepath.Join: empty elements are ignored, the others are joined with "/"
\* and the result is Cleaned, which drops repeated and trailing separators
\* and keeps a leading one.
Join(elems) ==
    LET ne == SelectSeq(elems, LAMBDA e : e # EmptyString)
        pieces == SelectSeq(Flatten(ne), LAMBDA x : x # "")
    IN  IF ne = <<>> THEN EmptyString
        ELSE IF Head(Head(ne)) = ""
                THEN IF pieces = <<>> THEN <<"", "">> ELSE <<"">> \o pieces
                ELSE IF pieces = <<>> THEN <<".">> ELSE pieces

\* system.Conf.CgroupRootDir and system.GetCurrentCgroupVersion(), the
\* process-wide settings the functions read
CgroupRootDirs == {<<"", "sys", "fs", "cgroup">>, <<"", "host-cgroup", "">>}

CgroupVersionV1 == "v1"

CgroupVersionV2 == "v2"

Systems == [CgroupRootDir : CgroupRootDirs,
            version : {CgroupVersionV1, CgroupVersionV2}]

PodParentDirs ==
    {<<"kubepods-burstable.slice", "kubepods-pod7712555c.slice", "">>,
     <<"kubepods.slice", "kubepods-pod0a1b.slice">>}

\* ContainerStatus.ContainerID: two the runtime naming convention can parse
\* and one it cannot
ParseableContainerIDs == {"docker://7712555c", "containerd://0a1b2c3d"}

ContainerStatuses ==
    [ContainerID : ParseableContainerIDs \cup {"7712555c"}]

\* system.CPUProcsName
CPUProcsName == "cgroup.procs"

\* resource types with a registered descriptor
RegisteredResourceTypes ==
    {CPUProcsName, "cpu.cfs_quota_us", "memory.limit_in_bytes"}

ResourceTypes == RegisteredResourceTypes \cup {"unknown.type"}

\* system.CgroupPathFormatter.ContainerDirFn: the runtime-specific segment of
\* a container, an error for an identity it cannot parse.
ContainerDirFn(id) ==
    CASE id = "docker://7712555c" -> Returned(<<"docker-7712555c.scope">>, Nil)
      [] id = "containerd://0a1b2c3d" ->
             Returned(<<"cri-containerd-0a1b2c3d.scope">>, Nil)
      [] OTHER -> Returned(EmptyString, "parse container id failed")

\* GetContainerCgroupParentDir: the segment of the container appended to the
\* pod's parent directory.
GetContainerCgroupParentDir(podParentDir, c) ==
    LET containerDir == ContainerDirFn(c.ContainerID)
    IN  IF containerDir.err # Nil
           THEN Returned(EmptyString, containerDir.err)
           ELSE Returned(Join(<<podParentDir, containerDir.val>>), Nil)

\* system.GetCgroupResource: the descriptor registered for the resource type
\* (subsystem and file name), an error for a type without one.
GetCgroupResource(resourceType) ==
    CASE resourceType = CPUProcsName ->
             Returned([Subfs |-> "cpu", FileName |-> "cgroup.procs"], Nil)
      [] resourceType = "cpu.cfs_quota_us" ->
             Returned([Subfs |-> "cpu", FileName |-> "cpu.cfs_quota_us"], Nil)
      [] resourceType = "memory.limit_in_bytes" ->
             Returned([Subfs |-> "memory",
                       FileName |-> "memory.limit_in_bytes"], Nil)
      [] OTHER -> Returned(Nil, "unknown resource type")

\* system.GetCgroupFilePath: root/subsystem/dir/file under v1 and
\* root/dir/file under v2.
GetCgroupFilePath(sys, containerPath, resource) ==
    IF sys.version = CgroupVersionV2
       THEN Join(<<sys.CgroupRootDir, containerPath, <<resource.FileName>>>>)
       ELSE Join(<<sys.CgroupRootDir, <<resource.Subfs>>, containerPath,
                   <<resource.FileName>>>>)

\* GetContainerCgroupPath(podParentDir, c, resourceType), reading sys
GetContainerCgroupPath_DefaultResource(sys, podParentDir, c, resourceType) ==
    LET resource == GetCgroupResource(resourceType)
        containerPath == GetContainerCgroupParentDir(podParentDir, c)
    IN  IF containerPath.err # Nil
           THEN Returned(EmptyString, "failed to get container cgroup path")
           ELSE IF resource.err # Nil
                   THEN Returned(GetCgroupFilePath(sys, containerPath.val,
                                     GetCgroupResource(CPUProcsName).val), Nil)
                   ELSE Returned(GetCgroupFilePath(sys, containerPath.val,
                                                   resource.val), Nil)

GetContainerCgroupPath(sys, podParentDir, c, resourceType) ==
    LET resource == GetCgroupResource(resourceType)
        containerPath == GetContainerCgroupParentDir(podParentDir, c)
    IN  IF resource.err # Nil
           THEN Returned(EmptyString, "failed to get resource type")
           ELSE IF containerPath.err # Nil
                   THEN Returned(EmptyString,
                                 "failed to get container cgroup path")
                   ELSE Returned(GetCgroupFilePath(sys, containerPath.val,
                                                   resource.val), Nil)

\* GetContainerCgroupPerfPath(podParentDir, c), reading sys
GetContainerCgroupPerfPath_NoVersionTest(sys, podParentDir, c) ==
    LET containerPath == GetContainerCgroupParentDir(podParentDir, c)
    IN  IF containerPath.err # Nil
           THEN Returned(EmptyString, containerPath.err)
           ELSE Returned(Join(<<sys.CgroupRootDir, <<"perf_event", "">>,
                               containerPath.val>>), Nil)

GetContainerCgroupPerfPath(sys, podParentDir, c) ==
    LET containerPath == GetContainerCgroupParentDir(podParentDir, c)
    IN  IF containerPath.err # Nil
           THEN Returned(EmptyString, containerPath.err)
           ELSE IF sys.version = CgroupVersionV2
                   THEN Returned(Join(<<sys.CgroupRootDir,
                                        containerPath.val>>), Nil)
                   ELSE Returned(Join(<<sys.CgroupRootDir,
                                        <<"perf_event", "">>,
                                        containerPath.val>>), Nil)

\* ---- PodMeta.  A pointer is <<>> when nil and <<x>> when it points at x.
Pods == [Namespace : {"default", "kube-system"},
         Name : {"web", "db"},
         Phase : {"Running", "Pending", "Failed"}]

PodMetas == [Pod : {<<>>} \cup {<<pod>> : pod \in Pods},
             CgroupDir : {"dirA", "dirB"}]

PodMetaRefs == {<<>>} \cup {<<m>> : m \in PodMetas}

\* util.GetPodKey: namespace "/" name
GetPodKey(pod) == <<pod.Namespace, "/", pod.Name>>

\* func (in *PodMeta) Key() string
Key_WithCgroupDir(in) ==
    IF in = <<>> \/ in[1].Pod = <<>>
       THEN EmptyString
       ELSE GetPodKey(in[1].Pod[1]) \o <<in[1].CgroupDir>>

Key(in) ==
    IF in = <<>> \/ in[1].Pod = <<>>
       THEN EmptyString
       ELSE GetPodKey(in[1].Pod[1])

\* ---- the calls a caller can make, and their application
PathCalls ==
    [fn : {"GetContainerCgroupPath"}, sys : Systems,
     podParentDir : PodParentDirs, c : ContainerStatuses,
     resourceType : ResourceTypes]

PerfPathCalls ==
    [fn : {"GetContainerCgroupPerfPath"}, sys : Systems,
     podParentDir : PodParentDirs, c : ContainerStatuses]

KeyCalls == [fn : {"Key"}, in : PodMetaRefs]

\* Any one call, about to be evaluated.
InitFunctions ==
    /\ stopCh = FALSE
    /\ InitStatesInformer
    /\ InitMetricAdvisor
    /\ collectResUsedInterval = Second
    /\ enabled = [c \in Collectors |-> TRUE]
    /\ informerPlugins = DefaultPluginRegistry
    /\ pluginCache = [n \in PluginNames |-> Nil]
    /\ call \in PathCalls \cup PerfPathCalls \cup KeyCalls
    /\ ret = Pending

ApplyGetContainerCgroupPath ==
    /\ call.fn = "GetContainerCgroupPath"
    /\ ret = Pending
    /\ ret' = GetContainerCgroupPath(call.sys, call.podParentDir, call.c,
                                     call.resourceType)
    /\ UNCHANGED <<stopCh, siVars, maVars, informerPlugins, pluginCache, call>>

ApplyGetContainerCgroupPerfPath ==
    /\ call.fn = "GetContainerCgroupPerfPath"
    /\ ret = Pending
    /\ ret' = GetContainerCgroupPerfPath(call.sys, call.podParentDir, call.c)
    /\ UNCHANGED <<stopCh, siVars, maVars, informerPlugins, pluginCache, call>>

ApplyKey ==
    /\ call.fn = "Key"
    /\ ret = Pending
    /\ ret' = Returned(Key(call.in), Nil)
    /\ UNCHANGED <<stopCh, siVars, maVars, informerPlugins, pluginCache, call>>

NextFunctions ==
    \/ ApplyGetContainerCgroupPath
    \/ ApplyGetContainerCgroupPerfPath
    \/ ApplyKey

SpecFunctions == InitFunctions /\ [][NextFunctions]_vars

\* ================================================================ claims
AllPluginsSynced == \A p \in Plugins : pluginSynced[p]

BarrierEntered ==
    siPc \in {"pollImmediate", "pollSelect", "pollLoop", "pollTick",
              "store", "block", "returnedNil", "returnedErr"}

RunReturned == siPc \in {"returnedNil", "returnedErr"}

\* C1 (as stated): if stopCh is closed while some plugin is still unsynced,
\* Run returns the "timed out" error and started is never set, in every
\* interleaving of plugin syncs, barrier polls and the stop signal.
C1_Original ==
    stopBeforeSynced => (~started /\ siPc \notin {"store", "block", "returnedNil"})

\* C1 (amended): Run returns the "timed out" error only after stopCh was
\* closed, and started is false whenever Run has returned that error; while
\* stopCh is closed and some plugin is still unsynced, started is false and
\* the only return Run can have made is the error return.  (A plugin that
\* finishes syncing after the signal but before the barrier's next poll lets
\* Run succeed.)
C1_ErrorReturn ==
    /\ siPc = "returnedErr" => (stopCh /\ ~started)
    /\ (stopCh /\ ~AllPluginsSynced) => (~started /\ siPc # "returnedNil")

C1_Witness ==
    /\ siPc = "returnedErr"
    /\ stopBeforeSynced
    /\ ~AllPluginsSynced

\* C2: started is true only if every registered plugin reports HasSynced
\* true; it is stored after the barrier saw all plugins synced (Run is then
\* in its final wait or has returned nil) and never on the error path.
C2_StartedImpliesSynced ==
    /\ started => AllPluginsSynced
    /\ started => siPc \in {"block", "returnedNil"}
    /\ siPc = "returnedErr" => ~started

C2_Witness == started /\ siPc = "block" /\ ~stopCh

\* C3: a HasSynced call returns true iff every plugin is synced at the
\* moment it returns, whatever started holds and wherever Run is.
C3_HasSyncedIsConjunction ==
    [][(hsPc = "loop" /\ hsPc' = "done") => (hsResult' = AllPluginsSynced')]_vars

C3_Witness ==
    /\ hsPc = "done"
    /\ hsResult = TRUE
    /\ ~started
    /\ siPc = "returnedErr"

\* C4: no plugin's Start is launched (nor its task begun) before Setup has
\* been invoked on every plugin; no plugin gets a second Setup or a second
\* Start; when the barrier is entered every plugin has had exactly one Setup
\* and exactly one Start launched by `go p.Start(stopCh)`.
C4_SetupBeforeStart ==
    /\ \A p \in Plugins : setupCalls[p] <= 1 /\ startCalls[p] <= 1
    /\ (\E p \in Plugins : startCalls[p] > 0 \/ pluginTask[p] # "none")
          => \A p \in Plugins : setupCalls[p] = 1
    /\ BarrierEntered => \A p \in Plugins : setupCalls[p] = 1 /\ startCalls[p] = 1

C4_Witness ==
    /\ siPc = "pollImmediate"
    /\ \A p \in Plugins : setupCalls[p] = 1 /\ startCalls[p] = 1
    /\ \E p \in Plugins : pluginTask[p] = "running"

\* C5: Run has not returned while stopCh is open, and a nil return happens
\* only with started already true.
C5_RunBlocksUntilStop ==
    /\ RunReturned => stopCh
    /\ siPc = "returnedNil" => started

C5_Witness == siPc = "returnedNil" /\ started /\ stopCh

AllEnabledStarted == \A c \in Collectors : enabled[c] => colStarted[c]

InCycle(c) == colPc[c] \in {"collect", "set", "store", "errReturn"}

\* C6: with CollectResUsedInterval below one second Run is either not yet
\* called or has returned nil (it never waits for stopCh), and no collector
\* has had Setup or Run invoked, whatever Enabled() says.
C6_DisabledPipeline ==
    collectResUsedInterval < Second =>
        /\ maPc \in {"init", "returnedNil"}
        /\ \A c \in Collectors :
              colSetupCalls[c] = 0 /\ colRunCalls[c] = 0 /\ colPc[c] = "none"

C6_Witness ==
    /\ collectResUsedInterval < Second
    /\ collectResUsedInterval > 0
    /\ maPc = "returnedNil"
    /\ ~stopCh
    /\ \E c \in Collectors : enabled[c]

\* C7: a disabled collector never gets Setup or Run; no collector gets
\* either twice; no collector's Run is started before every enabled
\* collector has had its Setup; once Run's loop is over every enabled
\* collector has had exactly one Setup and exactly one Run.
C7_EnabledCollectorsOnly ==
    /\ \A c \in Collectors :
          ~enabled[c] => colSetupCalls[c] = 0 /\ colRunCalls[c] = 0 /\ colPc[c] = "none"
    /\ \A c \in Collectors : colSetupCalls[c] <= 1 /\ colRunCalls[c] <= 1
    /\ (\E c \in Collectors : colRunCalls[c] > 0 \/ colPc[c] # "none")
          => \A c \in Collectors : enabled[c] => colSetupCalls[c] = 1
    /\ (collectResUsedInterval >= Second /\ maPc \in {"block", "returnedNil"})
          => \A c \in Collectors :
                enabled[c] => colSetupCalls[c] = 1 /\ colRunCalls[c] = 1

C7_Witness ==
    /\ maPc = "block"
    /\ \E c \in Collectors : enabled[c] /\ colSetupCalls[c] = 1 /\ colRunCalls[c] = 1
    /\ \E c \in Collectors : ~enabled[c]

\* C8: a metricAdvisor.HasSynced call returns true iff every enabled
\* collector's started flag is true at the moment it returns; disabled
\* collectors are not counted.
C8_HasSyncedOverEnabled ==
    [][(mhPc = "loop" /\ mhPc' = "done") => (mhResult' = AllEnabledStarted')]_vars

C8_Witness ==
    /\ mhPc = "done"
    /\ mhResult = TRUE
    /\ \E c \in Collectors : enabled[c] /\ colStarted[c]
    /\ \E c \in Collectors : ~enabled[c] /\ ~colStarted[c]

\* C9: the steps of a cycle whose GetLocalCPUInfo fails leave the cache
\* entry and the started flag as they were, and the loop goes on to its
\* timer wait (it does not end); metricAdvisor.Run is not affected.
C9_FailedCycleChangesNothing ==
    [][\A c \in Collectors :
          ((colPc[c] = "collect" /\ colPc'[c] = "errReturn") \/ colPc[c] = "errReturn")
             => /\ cache'[c] = cache[c]
                /\ colStarted'[c] = colStarted[c]
                /\ colPc'[c] \in {"errReturn", "timer"}
                /\ (colPc'[c] # colPc[c]) => maPc' = maPc]_vars

C9_Witness ==
    \E c \in Collectors :
        /\ colPc[c] = "errReturn"
        /\ colStarted[c]
        /\ cache[c] # Absent

\* C10: at most one execution of collectNodeInfo is in progress per
\* collector, and one is in progress exactly while the loop is inside f().
C10_CyclesNeverOverlap ==
    \A c \in Collectors :
        /\ inProgress[c] <= 1
        /\ (inProgress[c] = 1) = InCycle(c)

C10_Witness ==
    /\ \E c \in Collectors : inProgress[c] = 1 /\ colStarted[c] /\ colPc[c] = "collect"
    /\ \A c \in Collectors : inProgress[c] = 1

\* C11 (as stated): once stopCh is closed no collector starts a new cycle,
\* i.e. no call of collectNodeInfo begins in a state where stopCh is closed.
C11_Original ==
    [][\A c \in Collectors :
          stopCh => ~(colPc[c] = "call" /\ colPc'[c] = "collect")]_vars

\* C11 (amended): once stopCh is closed, a loop that is at its stop test
\* (the loop top, also when it got there through the timer branch of the
\* select that raced with stopCh) or in its timer wait never goes on to
\* another cycle: it can only exit; a cycle in progress is not cut short,
\* it runs to its return and the loop then reaches the timer wait.  The one
\* cycle that can still begin after the signal is that of a loop whose stop
\* test had already passed when the signal fired.
C11_NoCycleAfterStopTest ==
    [][\A c \in Collectors :
          /\ (stopCh /\ colPc[c] = "check") => colPc'[c] \in {"check", "exited"}
          /\ (stopCh /\ colPc[c] = "timer") => colPc'[c] \in {"timer", "check", "exited"}
          /\ (stopCh /\ colPc[c] = "exited") => colPc'[c] = "exited"
          /\ (stopCh /\ InCycle(c)) => (InCycle(c)' \/ colPc'[c] = "timer")]_vars

C11_Witness ==
    \E c \in Collectors :
        /\ stopCh
        /\ colPc[c] = "exited"
        /\ colStarted[c]
        /\ maPc = "returnedNil"

\* C13: the entry under the collector's key changes only by the Set of a
\* successful cycle, which stores that cycle's value over whatever was there
\* (last write wins); an entry that is present never becomes absent, and
\* before the first successful cycle (started false, no Set done) a change
\* can only be the first write.
C13_CacheLastWriteWins ==
    [][\A c \in Collectors :
          /\ (colPc[c] = "set" /\ colPc'[c] = "store")
                => (cache'[c] = localInfo[c] /\ cache'[c] \in CPUInfos)
          /\ ~(colPc[c] = "set" /\ colPc'[c] = "store") => cache'[c] = cache[c]
          /\ cache[c] # Absent => cache'[c] # Absent]_vars

C13_Witness ==
    \E c \in Collectors :
        /\ colPc[c] = "set"
        /\ cache[c] = "cpuinfoA"
        /\ localInfo[c] = "cpuinfoB"

\* C14: a collector whose started flag is true has its entry in the cache,
\* and after a HasSynced call returned true every enabled collector's entry
\* is present.
C14_StartedImpliesEntry ==
    /\ \A c \in Collectors : colStarted[c] => cache[c] # Absent
    /\ (mhPc = "done" /\ mhResult)
          => \A c \in Collectors : enabled[c] => cache[c] # Absent

C14_Witness ==
    /\ mhPc = "done"
    /\ mhResult
    /\ \E c \in Collectors :
          enabled[c] /\ colStarted[c] /\ cache[c] # Absent /\ colPc[c] = "timer"

\* C20: with the pipeline disabled no collector's started flag is ever true,
\* so with at least one enabled collector every completed HasSynced call has
\* returned false, also after Run returned nil.
C20_DisabledNeverSynced ==
    collectResUsedInterval < Second =>
        /\ \A c \in Collectors : ~colStarted[c]
        /\ ((\E c \in Collectors : enabled[c]) /\ mhPc = "done") => ~mhResult

C20_Witness ==
    /\ collectResUsedInterval < Second
    /\ maPc = "returnedNil"
    /\ \E c \in Collectors : enabled[c]
    /\ mhPc = "done"
    /\ ~mhResult

\* C12: readiness flags never go back: once a collector's started flag or
\* the statesInformer's started flag is true it is true in every later
\* state, through failed cycles and through the stop signal.
C12_ReadinessMonotonic ==
    [][/\ started => started'
       /\ \A c \in Collectors : colStarted[c] => colStarted'[c]]_vars

C12_Witness ==
    \/ started /\ stopCh /\ siPc = "returnedNil"
    \/ \E c \in Collectors : colStarted[c] /\ stopCh /\ colPc[c] = "errReturn"

InformerRunning == siPc \notin {"init", "returnedNil", "returnedErr"}

AdvisorRunning == maPc \notin {"init", "returnedNil"}

\* C15: under fair scheduling, a statesInformer.Run or metricAdvisor.Run
\* that is running with stopCh closed eventually returns, whether it is in
\* the barrier or in its final wait and whether or not the plugins sync.
C15_RunsReturnAfterStop ==
    /\ (stopCh /\ InformerRunning) ~> RunReturned
    /\ (stopCh /\ AdvisorRunning) ~> (maPc = "returnedNil")

C15_Witness ==
    /\ stopCh
    /\ siPc = "pollLoop"
    /\ maPc = "block"
    /\ \E p \in Plugins : ~pluginSynced[p] /\ pluginTask[p] = "exited"

\* C16: GetNode, GetCfsCM and GetAllPods return nil, without panicking and
\* without changing any state, whenever the entry under the fixed plugin name
\* is missing or not of the expected concrete type; otherwise they return
\* exactly the object that plugin holds cached at that moment.
AccessorName(fn) ==
    CASE fn = "GetNode" -> nodeInformerName
      [] fn = "GetCfsCM" -> cmInformerName
      [] fn = "GetAllPods" -> podsInformerName

AccessorType(fn) ==
    CASE fn = "GetNode" -> "*nodeInformer"
      [] fn = "GetCfsCM" -> "*cmInformer"
      [] fn = "GetAllPods" -> "*podsInformer"

C16_AccessorsNilOnMismatch ==
    [][\A fn \in Accessors :
          (call.fn = fn /\ ret.status = "pending" /\ ret'.status # "pending") =>
              /\ ret'.status = "returned"
              /\ ret'.val = IF informerPlugins[AccessorName(fn)] = AccessorType(fn)
                               THEN pluginCache[AccessorName(fn)]
                               ELSE Nil
              /\ informerPlugins' = informerPlugins
              /\ pluginCache' = pluginCache
              /\ UNCHANGED <<stopCh, siVars, maVars>>]_vars

\* GetAllPods has answered nil although the entry stored under its name, of
\* another concrete type, holds an object
C16_Witness ==
    /\ call.fn = "GetAllPods"
    /\ ret.status = "returned"
    /\ ret.val = Nil
    /\ informerPlugins[podsInformerName] = "*nodeInformer"
    /\ pluginCache[podsInformerName] = "objA"
    /\ informerPlugins[nodeInformerName] = Missing

\* C17: GetContainerCgroupPath returns the empty path together with an error
\* for every resource type without a registered descriptor and whenever the
\* container cgroup directory cannot be derived; it never returns a non-empty
\* path together with an error, and never a path for an unknown resource type.
C17_ErrorMeansEmptyPath ==
    (call.fn = "GetContainerCgroupPath" /\ ret.status = "returned") =>
        /\ (\/ call.resourceType \notin RegisteredResourceTypes
            \/ call.c.ContainerID \notin ParseableContainerIDs)
               => (ret.val = EmptyString /\ ret.err # Nil)
        /\ ret.err # Nil => ret.val = EmptyString
        /\ ret.val # EmptyString =>
               call.resourceType \in RegisteredResourceTypes

C17_Witness ==
    /\ call.fn = "GetContainerCgroupPath"
    /\ call.resourceType = "unknown.type"
    /\ call.c.ContainerID = "docker://7712555c"
    /\ ret.status = "returned"
    /\ ret.val = EmptyString
    /\ ret.err = "failed to get resource type"

\* C18: for the same pod parent directory and container, the path resolved
\* under cgroup v1 carries the subsystem segment between the cgroup root and
\* the container cgroup directory, and the path resolved under cgroup v2 is
\* the same path without that segment (for GetContainerCgroupPerfPath:
\* root/perf_event/containerDir against root/containerDir).
Resolve(c, sys) ==
    IF c.fn = "GetContainerCgroupPerfPath"
       THEN GetContainerCgroupPerfPath(sys, c.podParentDir, c.c)
       ELSE GetContainerCgroupPath(sys, c.podParentDir, c.c, c.resourceType)

SubsystemSegment(c) ==
    IF c.fn = "GetContainerCgroupPerfPath"
       THEN "perf_event"
       ELSE GetCgroupResource(c.resourceType).val.Subfs

C18_VersionSwitch ==
    (/\ call.fn \in {"GetContainerCgroupPath", "GetContainerCgroupPerfPath"}
     /\ ret.status = "returned"
     /\ ret.err = Nil) =>
        LET v1 == Resolve(call, [call.sys EXCEPT !.version = CgroupVersionV1])
            v2 == Resolve(call, [call.sys EXCEPT !.version = CgroupVersionV2])
            root == SelectSeq(call.sys.CgroupRootDir, LAMBDA x : x # "")
            dir == SelectSeq(call.podParentDir, LAMBDA x : x # "")
            n == Len(root) + 1
        IN  /\ ret = IF call.sys.version = CgroupVersionV1 THEN v1 ELSE v2
            /\ v1.err = Nil
            /\ v2.err = Nil
            /\ SubSeq(v2.val, 1, n) = <<"">> \o root
            /\ SubSeq(v2.val, n + 1, n + Len(dir)) = dir
            /\ v1.val = SubSeq(v2.val, 1, n) \o <<SubsystemSegment(call)>>
                            \o SubSeq(v2.val, n + 1, Len(v2.val))

C18_Witness ==
    /\ call.fn = "GetContainerCgroupPerfPath"
    /\ call.sys.version = CgroupVersionV1
    /\ ret.status = "returned"
    /\ ret.val = <<"", "sys", "fs", "cgroup", "perf_event",
                   "kubepods-burstable.slice", "kubepods-pod7712555c.slice",
                   "docker-7712555c.scope">>

\* C19: PodMeta.Key() is the empty string if and only if the PodMeta is nil
\* or its Pod is nil; otherwise the key depends on the pod's namespace and
\* name only: metas agreeing on both have equal keys whatever their phase
\* and CgroupDir.
SameNamespaceAndName(a, b) ==
    /\ a # <<>>
    /\ b # <<>>
    /\ a[1].Pod # <<>>
    /\ b[1].Pod # <<>>
    /\ a[1].Pod[1].Namespace = b[1].Pod[1].Namespace
    /\ a[1].Pod[1].Name = b[1].Pod[1].Name

C19_KeyOfNamespaceAndName ==
    (call.fn = "Key" /\ ret.status = "returned") =>
        /\ (ret.val = EmptyString) <=>
               (call.in = <<>> \/ call.in[1].Pod = <<>>)
        /\ \A m \in PodMetaRefs :
               SameNamespaceAndName(call.in, m) => Key(m) = ret.val

C19_Witness ==
    /\ call.fn = "Key"
    /\ ret.status = "returned"
    /\ call.in # <<>>
    /\ call.in[1].Pod # <<>>
    /\ call.in[1].Pod[1].Phase = "Failed"
    /\ call.in[1].CgroupDir = "dirB"
    /\ ret.val = <<"kube-system", "/", "db">>
====
